---- MODULE Spec2Model ----
(***************************************************************************)
(* Account autoconfiguration: Context::configure, inner_configure,         *)
(* configure, get_autoconfig, get_offline_autoconfig and the ServerParams  *)
(* expansion functions.                                                    *)
(*                                                                         *)
(* Strings are sequences of characters; a domain such as "k" and a prefix  *)
(* such as "imap." are single characters of the model's alphabet.          *)
(* Every action is one await point of the code together with the           *)
(* synchronous code that follows it up to the next await point.            *)
(* The variable expansion holds one application of an expansion function   *)
(* of ServerParams to an input of its own, outside any configure() call.   *)
(***************************************************************************)
EXTENDS Integers, Sequences, FiniteSets, TLC

VARIABLES scheduler_running, sql_open, ongoing, store, call, expansion

vars == <<scheduler_running, sql_open, ongoing, store, call, expansion>>

(* The concurrent callers of Context::configure on one context. *)
Callers == {1, 2}

---------------------------------------------------------------------------
(* Option<T> *)
None == [some |-> FALSE, val |-> <<>>]
Some(x) == [some |-> TRUE, val |-> x]

(* Index of the first '@' of s (1-based), 0 when there is none: str::find('@') *)
FindAt(s) ==
  IF \E i \in 1..Len(s) : s[i] = "@"
  THEN CHOOSE i \in 1..Len(s) : s[i] = "@" /\ \A j \in 1..(i-1) : s[j] # "@"
  ELSE 0

(* Index of the last '@' of s, 0 when there is none. *)
RFindAt(s) ==
  IF \E i \in 1..Len(s) : s[i] = "@"
  THEN CHOOSE i \in 1..Len(s) : s[i] = "@" /\ \A j \in (i+1)..Len(s) : s[j] # "@"
  ELSE 0

(* addr.split_at(at).0 : the part before the first '@' *)
LocalPart(addr) == SubSeq(addr, 1, FindAt(addr) - 1)

(* addr.parse::<EmailAddress>() succeeds: a non-empty local part and a     *)
(* non-empty domain around the last '@'.                                   *)
ParseOk(addr) == RFindAt(addr) > 1 /\ RFindAt(addr) < Len(addr)

(* parsed.domain *)
ParsedDomain(addr) == SubSeq(addr, RFindAt(addr) + 1, Len(addr))

---------------------------------------------------------------------------
(* DC_LP_AUTH_* bits of LoginParam.server_flags *)
DC_LP_AUTH_OAUTH2 == 2
DC_LP_AUTH_NORMAL == 4
DC_LP_AUTH_FLAGS == 6

(* f & DC_LP_AUTH_FLAGS *)
AuthBits(f) == ((f \div 2) % 4) * 2

(* lines 133-137 *)
IsOauth2(f) == AuthBits(f) = DC_LP_AUTH_OAUTH2

(* lines 138-143, as a bug would have it: the auth bits are not cleared    *)
(* before one of them is set                                               *)
NormalizeFlagsNotCleared(f) ==
  IF IsOauth2(f) THEN f
  ELSE IF (f \div DC_LP_AUTH_NORMAL) % 2 = 1 THEN f ELSE f + DC_LP_AUTH_NORMAL

(* lines 138-143: clear the auth bits, then set exactly one of them *)
NormalizeFlags(f) ==
  (f - AuthBits(f)) + (IF IsOauth2(f) THEN DC_LP_AUTH_OAUTH2 ELSE DC_LP_AUTH_NORMAL)

---------------------------------------------------------------------------
(* ServerParams *)
ServerParams(protocol, hostname, port, socket, username) ==
  [protocol |-> protocol, hostname |-> hostname, port |-> port,
   socket |-> socket, username |-> username]

RECURSIVE Flatten(_)
(* The concatenation of a sequence of lists: what flat_map().collect()     *)
(* makes of the lists its closure returns.                                 *)
Flatten(lists) ==
  IF lists = <<>> THEN <<>> ELSE Head(lists) \o Flatten(Tail(lists))

(* lines 28-43, as a bug would have it: the address split at its last '@' *)
expand_usernames_rsplit(sp, addr) ==
  IF sp.username = <<>>
  THEN <<[sp EXCEPT !.username = addr]>>
       \o (IF RFindAt(addr) # 0
           THEN <<[sp EXCEPT !.username = SubSeq(addr, 1, RFindAt(addr) - 1)]>>
           ELSE <<>>)
  ELSE <<sp>>

expand_usernames(sp, addr) ==
  IF sp.username = <<>>
  THEN <<[sp EXCEPT !.username = addr]>>
       \o (IF FindAt(addr) # 0
           THEN <<[sp EXCEPT !.username = LocalPart(addr)]>>
           ELSE <<>>)
  ELSE <<sp>>

(* lines 45-63, as a bug would have it: "mail." tried before the           *)
(* protocol's own prefix                                                   *)
expand_hostnames_mail_first(sp, param_domain) ==
  IF sp.hostname = <<>>
  THEN << [sp EXCEPT !.hostname = param_domain],
          [sp EXCEPT !.hostname = <<"mail.">> \o param_domain],
          [sp EXCEPT !.hostname =
              (IF sp.protocol = "IMAP" THEN <<"imap.">> ELSE <<"smtp.">>)
              \o param_domain] >>
  ELSE <<sp>>

expand_hostnames(sp, param_domain) ==
  IF sp.hostname = <<>>
  THEN << [sp EXCEPT !.hostname = param_domain],
          [sp EXCEPT !.hostname =
              (IF sp.protocol = "IMAP" THEN <<"imap.">> ELSE <<"smtp.">>)
              \o param_domain],
          [sp EXCEPT !.hostname = <<"mail.">> \o param_domain] >>
  ELSE <<sp>>

(* lines 67-79 of server_params.rs: the port inferred from the socket *)
InferPort(sp) ==
  IF sp.port # 0 THEN sp.port
  ELSE CASE sp.socket = "SSL" -> (IF sp.protocol = "IMAP" THEN 993 ELSE 465)
         [] sp.socket \in {"STARTTLS", "Plain"} ->
              (IF sp.protocol = "IMAP" THEN 143 ELSE 587)
         [] OTHER -> 0

(* lines 102-109, as a bug would have it: a port of the user's is tried    *)
(* with the socket as it is                                                *)
expand_ports_keeps_automatic(sp0) ==
  LET sp == [sp0 EXCEPT !.port = InferPort(sp0)] IN
  IF sp.port = 0
  THEN << [sp EXCEPT !.socket = "STARTTLS",
                     !.port = IF sp.protocol = "IMAP" THEN 143 ELSE 587],
          [sp EXCEPT !.socket = "SSL",
                     !.port = IF sp.protocol = "IMAP" THEN 993 ELSE 465] >>
  ELSE <<sp>>

(* lines 65-114, as a bug would have it: a port of the user's tried with   *)
(* STARTTLS before SSL                                                     *)
expand_ports_starttls_first(sp0) ==
  LET sp == [sp0 EXCEPT !.port = InferPort(sp0)] IN
  IF sp.port = 0
  THEN << [sp EXCEPT !.socket = "STARTTLS",
                     !.port = IF sp.protocol = "IMAP" THEN 143 ELSE 587],
          [sp EXCEPT !.socket = "SSL",
                     !.port = IF sp.protocol = "IMAP" THEN 993 ELSE 465] >>
  ELSE IF sp.socket = "Automatic"
  THEN << [sp EXCEPT !.socket = "STARTTLS"], [sp EXCEPT !.socket = "SSL"] >>
  ELSE <<sp>>

expand_ports(sp0) ==
  LET sp == [sp0 EXCEPT !.port = InferPort(sp0)] IN
  IF sp.port = 0
  THEN << [sp EXCEPT !.socket = "STARTTLS",
                     !.port = IF sp.protocol = "IMAP" THEN 143 ELSE 587],
          [sp EXCEPT !.socket = "SSL",
                     !.port = IF sp.protocol = "IMAP" THEN 993 ELSE 465] >>
  ELSE IF sp.socket = "Automatic"
  THEN << [sp EXCEPT !.socket = "SSL"], [sp EXCEPT !.socket = "STARTTLS"] >>
  ELSE <<sp>>

(* lines 215-223 of mod.rs, as a bug would have it: hostnames expanded     *)
(* before usernames                                                        *)
ExpandServersHostnamesFirst(list, addr, param_domain) ==
  LET hostnames ==
        Flatten([i \in 1..Len(list) |-> expand_hostnames(list[i], param_domain)])
      usernames ==
        Flatten([i \in 1..Len(hostnames) |->
                   expand_usernames(hostnames[i], addr)])
  IN Flatten([i \in 1..Len(usernames) |-> expand_ports(usernames[i])])

(* lines 196-223 of mod.rs: usernames, then hostnames, then ports *)
ExpandServers(list, addr, param_domain) ==
  LET usernames ==
        Flatten([i \in 1..Len(list) |-> expand_usernames(list[i], addr)])
      hostnames ==
        Flatten([i \in 1..Len(usernames) |->
                   expand_hostnames(usernames[i], param_domain)])
  IN Flatten([i \in 1..Len(hostnames) |-> expand_ports(hostnames[i])])

(* servers.iter().filter(|params| params.protocol == proto) *)
FilterProtocol(servers, proto) ==
  SelectSeq(servers, LAMBDA sp : sp.protocol = proto)

---------------------------------------------------------------------------
(* Collaborators and inputs. *)

(* provider::get_provider_info: the offline provider database, keyed by    *)
(* the part of the address after the first '@'.                            *)
ProviderServer(protocol, hostname, port, socket, username_pattern) ==
  [protocol |-> protocol, hostname |-> hostname, port |-> port,
   socket |-> socket, username_pattern |-> username_pattern]

KnownServers(d) ==
  << ProviderServer("IMAP", <<"imap.", d>>, 993, "SSL", "EMAIL"),
     ProviderServer("SMTP", <<"smtp.", d>>, 587, "STARTTLS", "EMAILLOCALPART") >>

ProviderInfo(status, server, config_defaults, after_login_hint) ==
  [status |-> status, server |-> server, config_defaults |-> config_defaults,
   after_login_hint |-> after_login_hint]

(* The configuration keys that a provider's config_defaults may name. *)
DefaultKeys == {"dk"}

get_provider_info(addr) ==
  LET d == SubSeq(addr, FindAt(addr) + 1, Len(addr)) IN
  CASE d = <<"k">> ->
         Some(ProviderInfo("OK", KnownServers("k"),
                           << [key |-> "dk", value |-> "provider"] >>, <<"hint">>))
    [] d = <<"p">> ->
         Some(ProviderInfo("PREPARATION", KnownServers("p"), <<>>, <<>>))
    [] d = <<"b">> ->
         Some(ProviderInfo("BROKEN", KnownServers("b"),
                           << [key |-> "dk", value |-> "provider"] >>, <<>>))
    [] d = <<"e">> ->
         Some(ProviderInfo("OK", <<>>, <<>>, <<"hint">>))
    [] OTHER -> None

(* The addresses the user may have entered. *)
Addrs ==
  { <<>>, <<"a">>, <<"a", "@", "n">>, <<"a", "@", "k">>, <<"a", "@", "p">>,
    <<"a", "@", "b">>, <<"a", "@", "e">> }

Passwords == { <<>>, <<"pw">> }

ServerFlags == {0, DC_LP_AUTH_OAUTH2, DC_LP_AUTH_NORMAL, DC_LP_AUTH_FLAGS}

(* login_param::ServerLoginParam *)
ServerLoginParam(server, port, security, user, password) ==
  [server |-> server, port |-> port, security |-> security, user |-> user,
   password |-> password]

BlankServer == ServerLoginParam(<<>>, 0, "Automatic", <<>>, <<>>)

(* The advanced parameters the user may have entered: none, each of the    *)
(* eight fields alone, and all of them.                                    *)
AdvancedParams ==
  { [imap |-> BlankServer, smtp |-> BlankServer],
    [imap |-> [BlankServer EXCEPT !.server = <<"h">>], smtp |-> BlankServer],
    [imap |-> [BlankServer EXCEPT !.port = 1143], smtp |-> BlankServer],
    [imap |-> [BlankServer EXCEPT !.security = "SSL"], smtp |-> BlankServer],
    [imap |-> [BlankServer EXCEPT !.user = <<"u">>], smtp |-> BlankServer],
    [imap |-> BlankServer, smtp |-> [BlankServer EXCEPT !.server = <<"h">>]],
    [imap |-> BlankServer, smtp |-> [BlankServer EXCEPT !.port = 2525]],
    [imap |-> BlankServer, smtp |-> [BlankServer EXCEPT !.security = "Plain"]],
    [imap |-> BlankServer, smtp |-> [BlankServer EXCEPT !.user = <<"u">>]],
    [imap |-> ServerLoginParam(<<"h">>, 1143, "STARTTLS", <<"u">>, <<>>),
     smtp |-> ServerLoginParam(<<"h">>, 2525, "SSL", <<"u">>, <<>>)] }

(* login_param::LoginParam *)
LoginParam(addr, imap, smtp, server_flags) ==
  [addr |-> addr, imap |-> imap, smtp |-> smtp, server_flags |-> server_flags]

(* The addresses the OAuth2 resolver may answer with. *)
Oauth2Addrs == { <<"c", "@", "k">>, <<"c", "@", "n">>, <<"c">> }

(* The lists an online discovery document may parse to. *)
FetchResults ==
  { << ServerParams("IMAP", <<"imap.", "srv">>, 993, "SSL", <<>>),
       ServerParams("SMTP", <<"smtp.", "srv">>, 0, "Automatic", <<>>) >>,
    << >> }

(* What the servers of the network accept in a run. *)
ImapWorlds == {"none", "all", "ssl"}
SmtpWorlds == {"none", "all", "starttls"}

(* Imap::connect(context, param, addr, oauth2).is_ok() *)
imap_connect(world, lp) ==
  \/ world = "all"
  \/ world = "ssl" /\ lp.security = "SSL" /\ FindAt(lp.user) = 0

(* Smtp::connect(context, param, addr, oauth2).is_ok() *)
smtp_connect(world, lp) ==
  \/ world = "all"
  \/ world = "starttls" /\ lp.security = "STARTTLS"

---------------------------------------------------------------------------
(* The state of one configure() call: its position, the locals of          *)
(* configure and inner_configure, and what the call has done so far.       *)
IdleCall ==
  [ pc |-> "idle",
    param |-> LoginParam(<<>>, BlankServer, BlankServer, 0),
    oauth2 |-> FALSE,
    param_domain |-> <<>>,
    servers |-> <<>>,
    idx |-> 0,
    progress |-> 0,
    success |-> "pending",
    imap_world |-> "unset",
    smtp_world |-> "unset",
    imap_connected |-> FALSE,
    smtp_connected |-> FALSE,
    cancelled |-> FALSE,
    res |-> "none",
    result |-> "none",
    events |-> <<>>,
    lookups |-> 0,
    oauth2_lookups |-> 0,
    oauth2_addr |-> None,
    started |-> 0,
    fetches |-> <<>>,
    attempts |-> <<>>,
    writes |-> <<>> ]

(* The await points inside inner_configure: the work side of the race. *)
InnerPcs ==
  { "from_database", "dc_get_oauth2_addr", "set_addr", "fetch", "imap_connect",
    "smtp_connect", "smtp_disconnect", "get_config_bool", "configure_folders",
    "select_with_uidvalidity", "save_to_database", "set_configured",
    "ensure_secret_key_exists", "clear_notify", "config_exists", "set_default",
    "add_device_msg", "set_notify" }

(* progress!(ctx, v) *)
Emit(r, v) == [r EXCEPT !.events = Append(@, v)]

(* as a bug would have it: the call halts where configure() fails *)
FailHalting(r, err) == [r EXCEPT !.success = err, !.pc = "halted"]

(* configure() returns Err(err), its locals imap and smtp are dropped, and *)
(* inner_configure goes on at line 76.                                     *)
Fail(r, err) ==
  [r EXCEPT !.success = err, !.pc = "clear_notify",
            !.imap_connected = FALSE, !.smtp_connected = FALSE]

(* The race is resolved with the value v: Context::configure goes on at    *)
(* line 66.                                                                *)
Resolve(r, v) == [r EXCEPT !.res = v, !.pc = "free_ongoing"]

ImapCandidates(r) == FilterProtocol(r.servers, "IMAP")
SmtpCandidates(r) == FilterProtocol(r.servers, "SMTP")

(* lines 235-238: the i-th IMAP candidate written to the login parameters *)
WriteImap(r, i) ==
  LET sp == ImapCandidates(r)[i] IN
  [r EXCEPT !.idx = i, !.pc = "imap_connect", !.started = @ + 1,
            !.param.imap.user = sp.username, !.param.imap.server = sp.hostname,
            !.param.imap.port = sp.port, !.param.imap.security = sp.socket]

(* lines 258-261 *)
WriteSmtp(r, i) ==
  LET sp == SmtpCandidates(r)[i] IN
  [r EXCEPT !.idx = i, !.pc = "smtp_connect", !.started = @ + 1,
            !.param.smtp.user = sp.username, !.param.smtp.server = sp.hostname,
            !.param.smtp.port = sp.port, !.param.smtp.security = sp.socket]

(* lines 230-247: the start of the IMAP loop *)
StartImap(r) ==
  IF ImapCandidates(r) = <<>>
  THEN Fail(r, "IMAP autoconfig did not succeed")
  ELSE WriteImap(r, 1)

(* lines 249-270: the start of the SMTP loop *)
StartSmtp(r) ==
  LET r1 == Emit(r, 750) IN
  IF SmtpCandidates(r1) = <<>>
  THEN Fail(r1, "SMTP autoconfig did not succeed")
  ELSE WriteSmtp(r1, 1)

(* lines 196-214, as a bug would have it: the SMTP descriptor is left out  *)
UserServersImapOnly(param) ==
  << ServerParams("IMAP", param.imap.server, param.imap.port,
                  param.imap.security, param.imap.user) >>

(* lines 196-214: the user-entered parameters as two descriptors *)
UserServers(param) ==
  << ServerParams("IMAP", param.imap.server, param.imap.port,
                  param.imap.security, param.imap.user),
     ServerParams("SMTP", param.smtp.server, param.smtp.port,
                  param.smtp.security, param.smtp.user) >>

(* lines 194-226: progress 500, the expansion, progress 600 *)
Expand(r, param_autoconfig) ==
  LET list == IF param_autoconfig.some THEN param_autoconfig.val
              ELSE UserServers(r.param)
      r1 == Emit(r, 500)
      r2 == [r1 EXCEPT !.servers = ExpandServers(list, r.param.addr, r.param_domain)]
  IN StartImap(Emit(r2, 600))

(* lines 387-433, as a bug would have it: the status is not looked at *)
get_offline_autoconfig_any_status(addr) ==
  LET provider == get_provider_info(addr) IN
  IF provider.some /\ provider.val.server # <<>>
  THEN Some([ i \in 1..Len(provider.val.server) |->
         LET s == provider.val.server[i] IN
         ServerParams(s.protocol, s.hostname, s.port, s.socket,
           IF s.username_pattern = "EMAIL" THEN addr
           ELSE IF FindAt(addr) # 0 THEN LocalPart(addr) ELSE addr) ])
  ELSE None

(* lines 387-433 *)
get_offline_autoconfig(addr) ==
  LET provider == get_provider_info(addr) IN
  IF provider.some
  THEN IF provider.val.status \in {"OK", "PREPARATION"}
       THEN IF provider.val.server = <<>>
            THEN None
            ELSE Some([ i \in 1..Len(provider.val.server) |->
                   LET s == provider.val.server[i] IN
                   ServerParams(s.protocol, s.hostname, s.port, s.socket,
                     IF s.username_pattern = "EMAIL" THEN addr
                     ELSE IF FindAt(addr) # 0 THEN LocalPart(addr) ELSE addr) ])
       ELSE None
  ELSE None

(* lines 173-180, as a bug would have it: the SMTP username is not looked  *)
(* at                                                                      *)
NoAdvancedButSmtpUser(param) ==
  /\ param.imap.server = <<>>
  /\ param.imap.port = 0
  /\ param.imap.security = "Automatic"
  /\ param.imap.user = <<>>
  /\ param.smtp.server = <<>>
  /\ param.smtp.port = 0
  /\ param.smtp.security = "Automatic"

(* lines 173-180: no advanced parameters entered by the user *)
NoAdvanced(param) ==
  /\ param.imap.server = <<>>
  /\ param.imap.port = 0
  /\ param.imap.security = "Automatic"
  /\ param.imap.user = <<>>
  /\ param.smtp.server = <<>>
  /\ param.smtp.port = 0
  /\ param.smtp.security = "Automatic"
  /\ param.smtp.user = <<>>

(* lines 372-376, as a bug would have it: the five sources fetched at once *)
CascadeAllAtOnce(r) ==
  LET servers == get_offline_autoconfig(r.param.addr)
      r1 == [r EXCEPT !.lookups = @ + 1]
  IN IF servers.some
     THEN Expand(r1, servers)
     ELSE [r1 EXCEPT !.pc = "fetch", !.idx = 1, !.progress = 300,
                     !.started = @ + 5]

(* lines 184-189: the offline lookup, then the online sources; the first   *)
(* fetch is started                                                        *)
Cascade(r) ==
  LET servers == get_offline_autoconfig(r.param.addr)
      r1 == [r EXCEPT !.lookups = @ + 1]
  IN IF servers.some
     THEN Expand(r1, servers)
     ELSE [r1 EXCEPT !.pc = "fetch", !.idx = 1, !.progress = 300,
                     !.started = @ + 1]

(* lines 165-192: the address parsed, progress 200, the autoconfig step *)
Autoconfig(r) ==
  IF ~ParseOk(r.param.addr)
  THEN Fail(r, "Bad email-address")
  ELSE LET r1 == Emit([r EXCEPT !.param_domain = ParsedDomain(r.param.addr)], 200)
       IN IF NoAdvanced(r1.param) THEN Cascade(r1) ELSE Expand(r1, None)

(* lines 121-150: configure() from its start to its first await *)
ConfigureStart(r0, loaded) ==
  LET r == Emit([r0 EXCEPT !.param = loaded], 1) IN
  IF r.param.addr = <<>> THEN Fail(r, "Please enter an email address.")
  ELSE IF r.param.imap.password = <<>> THEN Fail(r, "Please enter a password.")
  ELSE LET oauth2 == IsOauth2(r.param.server_flags)
           r1 == [r EXCEPT
                    !.param.smtp.password =
                       IF @ = <<>> THEN r.param.imap.password ELSE @,
                    !.param.server_flags = NormalizeFlags(@),
                    !.oauth2 = oauth2]
       IN IF oauth2
          THEN [Emit(r1, 10) EXCEPT !.pc = "dc_get_oauth2_addr",
                                    !.oauth2_lookups = @ + 1]
          ELSE Autoconfig(r1)

(* lines 105-116, as a bug would have it: the result of configure() is not *)
(* looked at                                                               *)
FinishIgnoringSuccess(r) == [r EXCEPT !.pc = "set_notify"]

(* lines 105-116: the end of inner_configure *)
Finish(r) ==
  IF r.success = "Ok"
  THEN [r EXCEPT !.pc = "set_notify"]
  ELSE Resolve(Emit(r, 0), r.success)

(* lines 93-103: the provider's hint *)
Hint(r) ==
  LET provider == get_provider_info(r.param.addr) IN
  IF provider.some /\ provider.val.after_login_hint # <<>>
  THEN [r EXCEPT !.pc = "add_device_msg"]
  ELSE Finish(r)

(* lines 80-90: the provider's i-th default, or the end of the loop *)
Default(r, i) ==
  LET provider == get_provider_info(r.param.addr) IN
  IF provider.some /\ i <= Len(provider.val.config_defaults)
  THEN [r EXCEPT !.pc = "config_exists", !.idx = i]
  ELSE Hint(r)

---------------------------------------------------------------------------
(* utf8_percent_encode(addr, NON_ALPHANUMERIC) *)
UrlEncode(s) == [i \in 1..Len(s) |-> IF s[i] = "@" THEN "%40" ELSE s[i]]

(* AutoconfigSource::all(domain, addr) *)
AutoconfigSources(domain, addr) ==
  << [provider |-> "Mozilla",
      url |-> <<"https://autoconfig.">> \o domain
              \o <<"/mail/config-v1.1.xml?emailaddress=">> \o addr],
     [provider |-> "Mozilla",
      url |-> <<"https://">> \o domain
              \o <<"/.well-known/autoconfig/mail/config-v1.1.xml?emailaddress=">>
              \o addr],
     [provider |-> "Outlook",
      url |-> <<"https://">> \o domain \o <<"/autodiscover/autodiscover.xml">>],
     [provider |-> "Outlook",
      url |-> <<"https://autodiscover.">> \o domain
              \o <<"/autodiscover/autodiscover.xml">>],
     [provider |-> "Mozilla",
      url |-> <<"https://autoconfig.thunderbird.net/v1.1/">> \o domain] >>

(* The sources of the run r, line 372. *)
SourcesOf(r) == AutoconfigSources(r.param_domain, UrlEncode(r.param.addr))

(* A store write of the call, under the key k. *)
Wrote(r, k) == [r EXCEPT !.writes = Append(@, k)]

(* lines 48-56, as a bug would have it: the result of alloc_ongoing() is   *)
(* ignored                                                                 *)
PreconditionsIgnoringSlot(running, open, held) ==
  IF running THEN "cannot configure, already running"
  ELSE IF ~open THEN "cannot configure, database not opened."
  ELSE "Ok"

(* lines 48-56: the error that stops configure() before the race, or "Ok" *)
Preconditions(running, open, held) ==
  IF running THEN "cannot configure, already running"
  ELSE IF ~open THEN "cannot configure, database not opened."
  ELSE IF held THEN "ongoing process is already running"
  ELSE "Ok"

---------------------------------------------------------------------------
(* One application of an expansion function: the function applied, its     *)
(* input (a list of descriptors, the address and the domain) and the Vec   *)
(* it returned.                                                            *)
Expansion(function, list, addr, param_domain, res) ==
  [function |-> function, list |-> list, addr |-> addr,
   param_domain |-> param_domain, res |-> res]

(* No function has been applied, and there is no input. *)
NoExpansion == Expansion("none", <<>>, <<>>, <<>>, <<>>)

---------------------------------------------------------------------------
(* The provider of addr names configuration defaults. *)
HasDefaults(addr) ==
  get_provider_info(addr).some
  /\ get_provider_info(addr).val.config_defaults # <<>>

(* The states before any call: the user-entered parameters are drawn from  *)
(* the given sets, and a default key may hold a value of the user's.       *)
InitWith(addrs, mail_pws, send_pws, flagset, advs) ==
  /\ scheduler_running \in BOOLEAN
  /\ sql_open \in BOOLEAN
  /\ ongoing = FALSE
  /\ \E addr \in addrs, mail_pw \in mail_pws, send_pw \in send_pws,
        flags \in flagset, adv \in advs, notify \in BOOLEAN,
        dk \in {"unset", "user"} :
       /\ dk = "user" => HasDefaults(addr)
       /\ store = [ param |-> LoginParam(addr,
                                 [adv.imap EXCEPT !.password = mail_pw],
                                 [adv.smtp EXCEPT !.password = send_pw], flags),
                    notify_about_wrong_pw |-> notify,
                    configured |-> FALSE,
                    configured_param |-> None,
                    defaults |-> [k \in DefaultKeys |-> dk],
                    device_msg |-> FALSE ]
  /\ call = [c \in Callers |-> IdleCall]
  /\ expansion = NoExpansion

(* Two callers calling configure() again and again, on a few inputs. *)
Init ==
  InitWith({ <<>>, <<"a", "@", "k">>, <<"a", "@", "n">> }, { <<"pw">> }, { <<>> },
           {0, DC_LP_AUTH_OAUTH2}, { [imap |-> BlankServer, smtp |-> BlankServer] })

(* One call of configure(), on every input. *)
InitRun == InitWith(Addrs, Passwords, Passwords, ServerFlags, AdvancedParams)

(* lines 48-56, as a bug would have it: a call that fails its              *)
(* preconditions frees the slot on its way out                             *)
ConfigureFreesOnFailure(c) ==
  /\ call[c].pc = "idle"
  /\ \A d \in Callers \ {c} : call[d].pc # "done"
  /\ LET pre == Preconditions(scheduler_running, sql_open, ongoing) IN
     IF pre = "Ok"
     THEN /\ ongoing' = TRUE
          /\ call' = [call EXCEPT ![c].pc = "from_database"]
     ELSE /\ call' = [call EXCEPT ![c].pc = "done", ![c].result = pre]
          /\ ongoing' = FALSE
  /\ UNCHANGED <<expansion, scheduler_running, sql_open, store>>

(* lines 45-56: configure() is called; it fails at once or allocates the   *)
(* slot and starts the race.                                               *)
Configure(c) ==
  /\ call[c].pc = "idle"
  /\ \A d \in Callers \ {c} : call[d].pc # "done"
  /\ LET pre == Preconditions(scheduler_running, sql_open, ongoing) IN
     IF pre = "Ok"
     THEN /\ ongoing' = TRUE
          /\ call' = [call EXCEPT ![c].pc = "from_database"]
     ELSE /\ call' = [call EXCEPT ![c].pc = "done", ![c].result = pre]
          /\ UNCHANGED ongoing
  /\ UNCHANGED <<expansion, scheduler_running, sql_open, store>>

(* line 74, then configure() up to its first await *)
FromDatabase(c) ==
  /\ call[c].pc = "from_database"
  /\ call' = [call EXCEPT ![c] = ConfigureStart(call[c], store.param)]
  /\ UNCHANGED <<expansion, scheduler_running, sql_open, ongoing, store>>

(* lines 151-156: the OAuth2 resolver answers *)
GetOauth2Addr(c) ==
  /\ call[c].pc = "dc_get_oauth2_addr"
  /\ \E a \in {None} \cup {Some(x) : x \in Oauth2Addrs} :
       call' = [call EXCEPT ![c] =
                  IF a.some
                  THEN [call[c] EXCEPT !.param.addr = a.val, !.oauth2_addr = a,
                                       !.pc = "set_addr"]
                  ELSE Autoconfig(Emit(call[c], 20))]
  /\ UNCHANGED <<expansion, scheduler_running, sql_open, ongoing, store>>

(* lines 157-159, as a bug would have it: the address is not written *)
SetAddrNotWritten(c) ==
  /\ call[c].pc = "set_addr"
  /\ call' = [call EXCEPT ![c] = Autoconfig(Emit(call[c], 20))]
  /\ UNCHANGED <<expansion, scheduler_running, sql_open, ongoing, store>>

(* lines 157-161: the canonical address is persisted *)
SetAddr(c) ==
  /\ call[c].pc = "set_addr"
  /\ \E ok \in BOOLEAN :
       IF ok
       THEN /\ store' = [store EXCEPT !.param.addr = call[c].param.addr]
            /\ call' = [call EXCEPT ![c] =
                          Autoconfig(Emit(Wrote(call[c], "addr"), 20))]
       ELSE /\ call' = [call EXCEPT ![c] = Fail(call[c], "store error")]
            /\ UNCHANGED store
  /\ UNCHANGED <<expansion, scheduler_running, sql_open, ongoing>>

(* line 378, as a bug would have it: the checkpoints 100 apart *)
NextProgressBy100(progress) == progress + 100

(* line 378 *)
NextProgress(progress) == progress + 10

(* lines 379-381, as a bug would have it: the result looked at only after  *)
(* the last source                                                         *)
StopsCascadeNever(res) == FALSE

(* lines 379-381: the first source that answers ends the cascade *)
StopsCascade(res) == res.some

(* lines 376-381, as a bug would have it: the source that answers returns  *)
(* before its checkpoint                                                   *)
FetchStepReturningEarly(r, res) ==
  LET r0 == [r EXCEPT !.fetches =
                Append(@, [source |-> SourcesOf(r)[r.idx], ok |-> res.some])]
      r2 == [Emit(r0, r.progress) EXCEPT !.progress = NextProgress(@)]
  IN IF StopsCascade(res) THEN Expand(r0, res)
     ELSE IF r.idx < Len(SourcesOf(r))
     THEN [r2 EXCEPT !.idx = @ + 1, !.started = @ + 1]
     ELSE Expand(r2, None)

(* lines 375-384: one source is fetched *)
FetchStep(r, res) ==
  LET r1 == Emit([r EXCEPT !.fetches =
                     Append(@, [source |-> SourcesOf(r)[r.idx], ok |-> res.some])],
                 r.progress)
      r2 == [r1 EXCEPT !.progress = NextProgress(@)]
  IN IF StopsCascade(res) THEN Expand(r2, res)
     ELSE IF r.idx < Len(SourcesOf(r))
     THEN [r2 EXCEPT !.idx = @ + 1, !.started = @ + 1]
     ELSE Expand(r2, None)

Fetch(c) ==
  /\ call[c].pc = "fetch"
  /\ \E res \in {None} \cup {Some(x) : x \in FetchResults} :
       call' = [call EXCEPT ![c] = FetchStep(call[c], res)]
  /\ UNCHANGED <<expansion, scheduler_running, sql_open, ongoing, store>>

(* One connection attempt of the call, with its outcome. *)
Attempt(protocol, lp, ok) ==
  [protocol |-> protocol, server |-> lp.server, port |-> lp.port,
   security |-> lp.security, user |-> lp.user, ok |-> ok]

(* lines 240-243, as a bug would have it: no break after a candidate that  *)
(* connected                                                               *)
ImapStepNoBreak(r0, world) ==
  LET ok == imap_connect(world, r0.param.imap)
      r == [r0 EXCEPT !.imap_world = world,
                      !.imap_connected = @ \/ ok,
                      !.attempts = Append(@, Attempt("IMAP", r0.param.imap, ok))]
  IN IF r.idx < Len(ImapCandidates(r)) THEN WriteImap(r, r.idx + 1)
     ELSE IF r.imap_connected THEN StartSmtp(r)
     ELSE Fail(r, "IMAP autoconfig did not succeed")

(* lines 231-247: one IMAP candidate is tried *)
ImapStep(r0, world) ==
  LET ok == imap_connect(world, r0.param.imap)
      r == [r0 EXCEPT !.imap_world = world,
                      !.attempts = Append(@, Attempt("IMAP", r0.param.imap, ok))]
  IN IF ok THEN StartSmtp([r EXCEPT !.imap_connected = TRUE])
     ELSE IF r.idx < Len(ImapCandidates(r)) THEN WriteImap(r, r.idx + 1)
     ELSE Fail(r, "IMAP autoconfig did not succeed")

ImapConnect(c) ==
  /\ call[c].pc = "imap_connect"
  /\ \E world \in ImapWorlds :
       /\ call[c].idx > 1 => world = call[c].imap_world
       /\ call' = [call EXCEPT ![c] = ImapStep(call[c], world)]
  /\ UNCHANGED <<expansion, scheduler_running, sql_open, ongoing, store>>

(* lines 268-270, as a bug would have it: smtp_configured is not looked at *)
SmtpStepNotChecked(r0, world) ==
  LET ok == smtp_connect(world, r0.param.smtp)
      r == [r0 EXCEPT !.smtp_world = world,
                      !.attempts = Append(@, Attempt("SMTP", r0.param.smtp, ok))]
  IN IF ok THEN [r EXCEPT !.smtp_connected = TRUE, !.pc = "smtp_disconnect"]
     ELSE IF r.idx < Len(SmtpCandidates(r)) THEN WriteSmtp(r, r.idx + 1)
     ELSE [r EXCEPT !.pc = "smtp_disconnect"]

(* lines 254-270 and 470-477: one SMTP candidate is tried *)
SmtpStep(r0, world) ==
  LET ok == smtp_connect(world, r0.param.smtp)
      r == [r0 EXCEPT !.smtp_world = world,
                      !.attempts = Append(@, Attempt("SMTP", r0.param.smtp, ok))]
  IN IF ok THEN [r EXCEPT !.smtp_connected = TRUE, !.pc = "smtp_disconnect"]
     ELSE IF r.idx < Len(SmtpCandidates(r)) THEN WriteSmtp(r, r.idx + 1)
     ELSE Fail(r, "SMTP autoconfig did not succeed")

SmtpConnect(c) ==
  /\ call[c].pc = "smtp_connect"
  /\ \E world \in SmtpWorlds :
       /\ call[c].idx > 1 => world = call[c].smtp_world
       /\ call' = [call EXCEPT ![c] = SmtpStep(call[c], world)]
  /\ UNCHANGED <<expansion, scheduler_running, sql_open, ongoing, store>>

(* line 475, as a bug would have it: the session is left open *)
SmtpDisconnectSkipped(c) ==
  /\ call[c].pc = "smtp_disconnect"
  /\ call' = [call EXCEPT ![c] =
                [Emit(call[c], 900) EXCEPT !.pc = "get_config_bool"]]
  /\ UNCHANGED <<expansion, scheduler_running, sql_open, ongoing, store>>

(* line 475, then line 272 *)
SmtpDisconnect(c) ==
  /\ call[c].pc = "smtp_disconnect"
  /\ call' = [call EXCEPT ![c] =
                [Emit(call[c], 900) EXCEPT !.smtp_connected = FALSE,
                                           !.pc = "get_config_bool"]]
  /\ UNCHANGED <<expansion, scheduler_running, sql_open, ongoing, store>>

(* lines 274-275 *)
GetConfigBool(c) ==
  /\ call[c].pc = "get_config_bool"
  /\ call' = [call EXCEPT ![c].pc = "configure_folders"]
  /\ UNCHANGED <<expansion, scheduler_running, sql_open, ongoing, store>>

(* line 277 *)
ConfigureFolders(c) ==
  /\ call[c].pc = "configure_folders"
  /\ \E ok \in BOOLEAN :
       call' = [call EXCEPT ![c] =
                  IF ok THEN [call[c] EXCEPT !.pc = "select_with_uidvalidity"]
                  ELSE Fail(call[c], "could not configure folders")]
  /\ UNCHANGED <<expansion, scheduler_running, sql_open, ongoing, store>>

(* lines 279-285 *)
SelectWithUidvalidity(c) ==
  /\ call[c].pc = "select_with_uidvalidity"
  /\ \E ok \in BOOLEAN :
       call' = [call EXCEPT ![c] =
                  IF ok THEN [Emit(call[c], 910) EXCEPT !.imap_connected = FALSE,
                                                        !.pc = "save_to_database"]
                  ELSE Fail(call[c], "could not read INBOX status")]
  /\ UNCHANGED <<expansion, scheduler_running, sql_open, ongoing, store>>

(* line 289 *)
SaveToDatabase(c) ==
  /\ call[c].pc = "save_to_database"
  /\ \E ok \in BOOLEAN :
       IF ok
       THEN /\ store' = [store EXCEPT !.configured_param = Some(call[c].param)]
            /\ call' = [call EXCEPT ![c] =
                          [Wrote(call[c], "configured_") EXCEPT !.pc = "set_configured"]]
       ELSE /\ call' = [call EXCEPT ![c] = Fail(call[c], "store error")]
            /\ UNCHANGED store
  /\ UNCHANGED <<expansion, scheduler_running, sql_open, ongoing>>

(* lines 290-292 *)
SetConfigured(c) ==
  /\ call[c].pc = "set_configured"
  /\ \E ok \in BOOLEAN :
       IF ok
       THEN /\ store' = [store EXCEPT !.configured = TRUE]
            /\ call' = [call EXCEPT ![c] =
                          [Emit(Wrote(call[c], "configured"), 920)
                             EXCEPT !.pc = "ensure_secret_key_exists"]]
       ELSE /\ call' = [call EXCEPT ![c] = Fail(call[c], "store error")]
            /\ UNCHANGED store
  /\ UNCHANGED <<expansion, scheduler_running, sql_open, ongoing>>

(* lines 294-299 *)
EnsureSecretKeyExists(c) ==
  /\ call[c].pc = "ensure_secret_key_exists"
  /\ \E ok \in BOOLEAN :
       call' = [call EXCEPT ![c] =
                  IF ok THEN [Emit(call[c], 940) EXCEPT !.success = "Ok",
                                                        !.pc = "clear_notify"]
                  ELSE Fail(call[c], "could not ensure the secret key")]
  /\ UNCHANGED <<expansion, scheduler_running, sql_open, ongoing, store>>

(* line 76, then the provider lookup of line 78 *)
ClearNotify(c) ==
  /\ call[c].pc = "clear_notify"
  /\ \E ok \in BOOLEAN :
       IF ok
       THEN /\ store' = [store EXCEPT !.notify_about_wrong_pw = FALSE]
            /\ call' = [call EXCEPT ![c] =
                          Default(Wrote(call[c], "notify_about_wrong_pw"), 1)]
       ELSE /\ call' = [call EXCEPT ![c] = Resolve(call[c], "store error")]
            /\ UNCHANGED store
  /\ UNCHANGED <<expansion, scheduler_running, sql_open, ongoing>>

(* The default the call is at, lines 80-81. *)
DefaultOf(r) == get_provider_info(r.param.addr).val.config_defaults[r.idx]

(* line 81, as a bug would have it: the default is written whether the   *)
(* key exists or not                                                       *)
ConfigExistsIgnored(c) ==
  /\ call[c].pc = "config_exists"
  /\ call' = [call EXCEPT ![c].pc = "set_default"]
  /\ UNCHANGED <<expansion, scheduler_running, sql_open, ongoing, store>>

(* line 81 *)
ConfigExists(c) ==
  /\ call[c].pc = "config_exists"
  /\ call' = [call EXCEPT ![c] =
                IF store.defaults[DefaultOf(call[c]).key] = "unset"
                THEN [call[c] EXCEPT !.pc = "set_default"]
                ELSE Default(call[c], call[c].idx + 1)]
  /\ UNCHANGED <<expansion, scheduler_running, sql_open, ongoing, store>>

(* line 83 *)
SetDefault(c) ==
  /\ call[c].pc = "set_default"
  /\ \E ok \in BOOLEAN :
       IF ok
       THEN /\ store' = [store EXCEPT !.defaults[DefaultOf(call[c]).key] =
                                         DefaultOf(call[c]).value]
            /\ call' = [call EXCEPT ![c] =
                          Default(Wrote(call[c], DefaultOf(call[c]).key),
                                  call[c].idx + 1)]
       ELSE /\ call' = [call EXCEPT ![c] = Resolve(call[c], "store error")]
            /\ UNCHANGED store
  /\ UNCHANGED <<expansion, scheduler_running, sql_open, ongoing>>

(* lines 94-101 *)
AddDeviceMsg(c) ==
  /\ call[c].pc = "add_device_msg"
  /\ \E ok \in BOOLEAN :
       /\ store' = [store EXCEPT !.device_msg = @ \/ ok]
       /\ call' = [call EXCEPT ![c] =
                     Finish(IF ok THEN Wrote(call[c], "device_msg") ELSE call[c])]
  /\ UNCHANGED <<expansion, scheduler_running, sql_open, ongoing>>

(* lines 107-110 *)
SetNotify(c) ==
  /\ call[c].pc = "set_notify"
  /\ \E ok \in BOOLEAN :
       IF ok
       THEN /\ store' = [store EXCEPT !.notify_about_wrong_pw = TRUE]
            /\ call' = [call EXCEPT ![c] =
                          Resolve(Emit(Wrote(call[c], "notify_about_wrong_pw"), 1000),
                                  "Ok")]
       ELSE /\ call' = [call EXCEPT ![c] = Resolve(call[c], "store error")]
            /\ UNCHANGED store
  /\ UNCHANGED <<expansion, scheduler_running, sql_open, ongoing>>

(* lines 58-64, as a bug would have it: progress 0 is emitted and the work *)
(* side goes on                                                            *)
CancelledNotDropped(r) == [Emit(r, 0) EXCEPT !.cancelled = TRUE]

(* lines 60-63: the cancellation side of the race: progress 0 and Ok(());  *)
(* the work side is dropped with its connections.                          *)
Cancelled(r) ==
  Resolve([Emit(r, 0) EXCEPT !.cancelled = TRUE, !.imap_connected = FALSE,
                             !.smtp_connected = FALSE], "Ok")

(* lines 58-64: cancel_channel.recv() completes while inner_configure is   *)
(* suspended at one of its await points.                                   *)
Cancel(c) ==
  /\ call[c].pc \in InnerPcs
  /\ call' = [call EXCEPT ![c] = Cancelled(call[c])]
  /\ UNCHANGED <<expansion, scheduler_running, sql_open, ongoing, store>>

(* lines 66-68: configure() returns the race's value *)
Return(r) == [r EXCEPT !.result = r.res, !.pc = "done"]

(* line 66, as a bug would have it: an error of the race returned with `?` *)
(* before free_ongoing()                                                   *)
HeldAfterRaceOnError(r) == r.res # "Ok"

(* line 66: free_ongoing() runs whatever the race returned; the slot is    *)
(* not held afterwards                                                     *)
HeldAfterRace(r) == FALSE

FreeOngoing(c) ==
  /\ call[c].pc = "free_ongoing"
  /\ ongoing' = HeldAfterRace(call[c])
  /\ call' = [call EXCEPT ![c] = Return(call[c])]
  /\ UNCHANGED <<expansion, scheduler_running, sql_open, store>>

(* The caller has read the result of its call and may call again. *)
Reset(c) ==
  /\ call[c].pc = "done"
  /\ call' = [call EXCEPT ![c] = IdleCall]
  /\ UNCHANGED <<expansion, scheduler_running, sql_open, ongoing, store>>

(* One step of the call of caller c. *)
Step(c) ==
  \/ Configure(c)
  \/ FromDatabase(c)
  \/ GetOauth2Addr(c)
  \/ SetAddr(c)
  \/ Fetch(c)
  \/ ImapConnect(c)
  \/ SmtpConnect(c)
  \/ SmtpDisconnect(c)
  \/ GetConfigBool(c)
  \/ ConfigureFolders(c)
  \/ SelectWithUidvalidity(c)
  \/ SaveToDatabase(c)
  \/ SetConfigured(c)
  \/ EnsureSecretKeyExists(c)
  \/ ClearNotify(c)
  \/ ConfigExists(c)
  \/ SetDefault(c)
  \/ AddDeviceMsg(c)
  \/ SetNotify(c)
  \/ Cancel(c)
  \/ FreeOngoing(c)

Next == \E c \in Callers : Step(c) \/ Reset(c)

Spec == Init /\ [][Next]_vars

NextRun == Step(1)

SpecRun == InitRun /\ [][NextRun]_vars

(* The values of server_flags: each combination of the two auth bits       *)
(* together with other bits, below and above them.                         *)
WideServerFlags ==
  { auth + other : auth \in ServerFlags, other \in {0, 1, 8, 65536 + 256 + 1} }

(* One call of configure(), on every value of server_flags. *)
InitFlags ==
  InitWith({ <<"a", "@", "k">>, <<"a", "@", "n">> }, { <<"pw">> }, { <<>> },
           WideServerFlags, { [imap |-> BlankServer, smtp |-> BlankServer] })

SpecFlags == InitFlags /\ [][NextRun]_vars

(* The call of c can take a step: it is still to be made, or it is at an   *)
(* await point of inner_configure, or it is about to free the slot.        *)
Ready(c) == call[c].pc \in {"idle", "free_ongoing"} \cup InnerPcs

(* Every await of the call returns in finite time and the executor polls   *)
(* the race again: weak fairness of the call's steps.  WF_vars(NextRun) is *)
(* []<>(~ENABLED <<NextRun>>_vars) \/ []<><<NextRun>>_vars; a step is      *)
(* enabled exactly when the call is Ready, and the formula is written with *)
(* Ready in the place of ENABLED.  The steps that enter and leave the race *)
(* are named as well.                                                      *)
Fairness ==
  /\ WF_vars(Configure(1))
  /\ WF_vars(FreeOngoing(1))
  /\ ([]<>(~Ready(1)) \/ []<><<NextRun>>_vars)

(* One call of configure(), on every input, in which every await returns. *)
SpecLive == InitRun /\ [][NextRun]_vars /\ Fairness

---------------------------------------------------------------------------
(* The expansion functions applied to inputs of their own. *)

Protocols == {"IMAP", "SMTP"}
Sockets == {"Automatic", "SSL", "STARTTLS", "Plain"}

(* The descriptors an expansion function may be given: every protocol and  *)
(* socket, the hostname and the username unknown or known, and the port    *)
(* unknown, a default port or another port.                                *)
ExpandInputs ==
  { ServerParams(protocol, hostname, port, socket, username) :
      protocol \in Protocols, hostname \in { <<>>, <<"h">> },
      port \in {0, 143, 1143}, socket \in Sockets,
      username \in { <<>>, <<"u">> } }

(* The addresses given to expand_usernames: empty, without '@', with one   *)
(* '@' and with two.                                                       *)
ExpandAddrs ==
  { <<>>, <<"a">>, <<"a", "@", "n">>, <<"a", "@", "b", "@", "n">> }

(* The domains given to expand_hostnames. *)
ExpandDomains == { <<"n">>, <<"k">> }

(* The lists of descriptors that are expanded: none, one or two. *)
DescriptorLists ==
  { <<>> } \cup { <<sp>> : sp \in ExpandInputs }
           \cup { <<sp1, sp2>> : sp1 \in ExpandInputs, sp2 \in ExpandInputs }

(* An input is chosen; no configure() call is made. *)
InitExpand ==
  /\ scheduler_running = FALSE
  /\ sql_open = FALSE
  /\ ongoing = FALSE
  /\ store = [ param |-> LoginParam(<<>>, BlankServer, BlankServer, 0),
               notify_about_wrong_pw |-> FALSE,
               configured |-> FALSE,
               configured_param |-> None,
               defaults |-> [k \in DefaultKeys |-> "unset"],
               device_msg |-> FALSE ]
  /\ call = [c \in Callers |-> IdleCall]
  /\ \E list \in DescriptorLists, addr \in ExpandAddrs,
        param_domain \in ExpandDomains :
       expansion = Expansion("none", list, addr, param_domain, <<>>)

(* sp.expand_usernames(addr) *)
ExpandUsernames ==
  /\ expansion.function = "none"
  /\ Len(expansion.list) = 1
  /\ expansion' = [expansion EXCEPT
                     !.function = "expand_usernames",
                     !.res = expand_usernames(expansion.list[1], expansion.addr)]
  /\ UNCHANGED <<scheduler_running, sql_open, ongoing, store, call>>

(* sp.expand_hostnames(param_domain) *)
ExpandHostnames ==
  /\ expansion.function = "none"
  /\ Len(expansion.list) = 1
  /\ expansion' = [expansion EXCEPT
                     !.function = "expand_hostnames",
                     !.res = expand_hostnames(expansion.list[1],
                                              expansion.param_domain)]
  /\ UNCHANGED <<scheduler_running, sql_open, ongoing, store, call>>

(* sp.expand_ports() *)
ExpandPorts ==
  /\ expansion.function = "none"
  /\ Len(expansion.list) = 1
  /\ expansion' = [expansion EXCEPT
                     !.function = "expand_ports",
                     !.res = expand_ports(expansion.list[1])]
  /\ UNCHANGED <<scheduler_running, sql_open, ongoing, store, call>>

(* lines 215-223 of mod.rs: the three flat_map steps over a list *)
ExpandList ==
  /\ expansion.function = "none"
  /\ expansion' = [expansion EXCEPT
                     !.function = "servers",
                     !.res = ExpandServers(expansion.list, expansion.addr,
                                           expansion.param_domain)]
  /\ UNCHANGED <<scheduler_running, sql_open, ongoing, store, call>>

NextExpand ==
  \/ ExpandUsernames
  \/ ExpandHostnames
  \/ ExpandPorts
  \/ ExpandList

SpecExpand == InitExpand /\ [][NextExpand]_vars

---------------------------------------------------------------------------
(* The claims. *)

Has(s, v) == \E i \in 1..Len(s) : s[i] = v
Count(s, v) == Cardinality({i \in 1..Len(s) : s[i] = v})
Last(s) == s[Len(s)]

(* The call of c is between alloc_ongoing() and free_ongoing(). *)
Active(c) == call[c].pc \in InnerPcs \cup {"free_ongoing"}

(* The call of c allocated the slot and has returned. *)
Returned(c) == call[c].pc = "done" /\ call[c].res # "none"

(* C1: at most one call is between alloc_ongoing() and free_ongoing() at   *)
(* any time; and a configure() call made while the slot is held or the     *)
(* store is not open ends at once with an error, having emitted nothing,   *)
(* looked up, fetched, attempted and written nothing, and leaving the      *)
(* store and the slot as they were.                                        *)
C1_SingleFlight ==
  /\ [](\A c, d \in Callers : Active(c) /\ Active(d) => c = d)
  /\ [][\A c \in Callers :
          (call[c].pc = "idle" /\ call'[c].pc # "idle" /\ (ongoing \/ ~sql_open))
          => /\ call'[c] = [IdleCall EXCEPT !.pc = "done",
                                            !.result = call'[c].result]
             /\ call'[c].result \notin {"Ok", "none"}
             /\ store' = store
             /\ ongoing' = ongoing]_vars

(* C1's case: a call is rejected while another call is inside the race. *)
C1_Witness ==
  \E c, d \in Callers :
    /\ call[c].pc = "imap_connect"
    /\ call[d].pc = "done"
    /\ call[d].result = "ongoing process is already running"

(* C2: the slot is held only while a call is between alloc_ongoing() and   *)
(* free_ongoing(): a call that returns leaves the slot free, whatever the  *)
(* race returned, and a call that fails because the slot is held is made   *)
(* while another call is still running.                                    *)
C2_SlotReleased ==
  /\ []((\A c \in Callers : ~Active(c)) => ~ongoing)
  /\ [][\A c \in Callers :
          (call[c].pc = "free_ongoing" /\ call'[c].pc = "done") => ~ongoing']_vars
  /\ [][\A c \in Callers :
          (call[c].pc = "idle"
           /\ call'[c].result = "ongoing process is already running")
          => \E d \in Callers \ {c} : Active(d)]_vars

(* C2's case: a call that held the slot has returned an error. *)
C2_Witness ==
  \E c \in Callers :
    /\ Returned(c)
    /\ call[c].result = "IMAP autoconfig did not succeed"
    /\ ~ongoing

(* C3: when the cancellation side wins the race, progress 0 is emitted     *)
(* exactly once, as the last event, the call returns Ok, and the call      *)
(* emits, fetches, attempts and writes nothing afterwards.                 *)
C3_Cancellation ==
  /\ [](\A c \in Callers :
          call[c].cancelled
          => /\ call[c].pc \in {"free_ongoing", "done"}
             /\ Count(call[c].events, 0) = 1
             /\ Last(call[c].events) = 0
             /\ call[c].res = "Ok"
             /\ call[c].pc = "done" => call[c].result = "Ok")
  /\ [][\A c \in Callers :
          call[c].cancelled
          => /\ call'[c].events = call[c].events
             /\ call'[c].fetches = call[c].fetches
             /\ call'[c].attempts = call[c].attempts
             /\ call'[c].writes = call[c].writes
             /\ store' = store]_vars

(* C3's case: a call cancelled during the SMTP trial has returned. *)
C3_Witness ==
  \E c \in Callers :
    /\ call[c].cancelled
    /\ call[c].pc = "done"
    /\ Has(call[c].events, 750)
    /\ ~Has(call[c].events, 900)

(* C4: the progress values of a call are non-decreasing, except for at     *)
(* most one 0, which is the last value.                                    *)
C4_ProgressMonotonic ==
  \A c \in Callers :
    \A i, j \in 1..Len(call[c].events) :
      i < j => /\ call[c].events[i] # 0
               /\ call[c].events[j] # 0 => call[c].events[i] <= call[c].events[j]

(* C4's case: five sources were tried and the run ended with 0. *)
C4_Witness ==
  \E c \in Callers :
    /\ Len(call[c].fetches) = 5
    /\ Has(call[c].events, 600)
    /\ Last(call[c].events) = 0

(* C5: a call that returned an error has emitted progress 0. *)
C5_FatalEmitsZero ==
  \A c \in Callers :
    (call[c].pc = "done" /\ call[c].result \notin {"Ok", "none"})
    => Has(call[c].events, 0)

(* The steps of configure() all succeeded: both trials, the folders and    *)
(* INBOX, the persistence and the secret key.                              *)
CompletedSteps(r) ==
  /\ \E i \in 1..Len(r.attempts) : r.attempts[i].protocol = "IMAP" /\ r.attempts[i].ok
  /\ \E i \in 1..Len(r.attempts) : r.attempts[i].protocol = "SMTP" /\ r.attempts[i].ok
  /\ Has(r.events, 900)
  /\ Has(r.events, 910)
  /\ Has(r.writes, "configured_")
  /\ Has(r.writes, "configured")
  /\ Has(r.events, 940)

(* C6 as stated: a returned call has emitted 1000 exactly when the steps   *)
(* of configure() all succeeded and it was not cancelled, and 1000 is then *)
(* its last value and it has emitted no 0.                                 *)
C6_Original ==
  \A c \in Callers :
    Returned(c)
    => /\ Has(call[c].events, 1000)
            <=> (CompletedSteps(call[c]) /\ ~call[c].cancelled)
       /\ Has(call[c].events, 1000)
            => (Last(call[c].events) = 1000 /\ ~Has(call[c].events, 0))

(* C6 amended: 1000 is emitted exactly when the steps of configure() all   *)
(* succeeded, the call was not cancelled, and the store writes of          *)
(* inner_configure succeeded as well, up to the second write of the        *)
(* wrong-password flag; 1000 is then the last value and no 0 is emitted.   *)
C6_SuccessIffCompleted ==
  \A c \in Callers :
    /\ Has(call[c].events, 1000)
         <=> /\ CompletedSteps(call[c])
             /\ ~call[c].cancelled
             /\ Count(call[c].writes, "notify_about_wrong_pw") = 2
    /\ Has(call[c].events, 1000)
         => (Last(call[c].events) = 1000 /\ ~Has(call[c].events, 0))

(* C6's case: a call has returned after emitting 1000. *)
C6_Witness ==
  \E c \in Callers : Returned(c) /\ Has(call[c].events, 1000)

(* C7: the wrong-password flag is cleared by the call before it validates, *)
(* fetches or connects, and it is cleared after every call that held the   *)
(* slot and did not end in success.                                        *)
C7_FlagClearedAtStart ==
  \A c \in Callers :
    /\ (call[c].events # <<>> /\ Active(c))
         => (Has(call[c].writes, "notify_about_wrong_pw")
             /\ ~store.notify_about_wrong_pw)
    /\ (Returned(c) /\ ~Has(call[c].events, 1000))
         => ~store.notify_about_wrong_pw

(* The eight advanced fields as the user entered them are all blank. *)
AllBlank(p) ==
  /\ p.imap.server = <<>> /\ p.imap.port = 0
  /\ p.imap.user = <<>> /\ p.imap.security = "Automatic"
  /\ p.smtp.server = <<>> /\ p.smtp.port = 0
  /\ p.smtp.user = <<>> /\ p.smtp.security = "Automatic"

(* C8: in a call that reached the autoconfig step, the cascade is invoked  *)
(* exactly when the eight advanced fields are blank; if one of them is     *)
(* set, there is no offline lookup and no fetch, and the candidates are    *)
(* the expansion of the user-entered IMAP and SMTP parameters.             *)
C8_CascadeOnlyWhenBlank ==
  \A c \in Callers :
    Has(call[c].events, 200)
    => /\ call[c].lookups = (IF AllBlank(store.param) THEN 1 ELSE 0)
       /\ ~AllBlank(store.param)
            => /\ call[c].fetches = <<>>
               /\ call[c].servers =
                    ExpandServers(UserServers(store.param), call[c].param.addr,
                                  call[c].param_domain)

(* C8's case: an advanced field is set and the candidates are expanded. *)
C8_Witness ==
  \E c \in Callers :
    /\ Has(call[c].events, 600)
    /\ ~AllBlank(store.param)
    /\ store.param.smtp.user # <<>>
    /\ store.param.imap.user = <<>>
    /\ Len(call[c].servers) > 2

(* The provider record of addr gives a usable list. *)
Usable(addr) ==
  /\ get_provider_info(addr).some
  /\ get_provider_info(addr).val.status \in {"OK", "PREPARATION"}
  /\ get_provider_info(addr).val.server # <<>>

(* The descriptors of the provider record of addr. *)
Descriptors(addr) ==
  LET server == get_provider_info(addr).val.server IN
  [ i \in 1..Len(server) |->
      [ protocol |-> server[i].protocol, hostname |-> server[i].hostname,
        port |-> server[i].port, socket |-> server[i].socket,
        username |-> IF server[i].username_pattern = "EMAIL" THEN addr
                     ELSE SubSeq(addr, 1, FindAt(addr) - 1) ] ]

(* C9: when the cascade is invoked, a usable provider record gives its     *)
(* descriptors as the candidates and no source is fetched; without a       *)
(* usable record (none, BROKEN, no servers) the sources are fetched        *)
(* before the candidates are finalized.                                    *)
C9_OfflineBeforeOnline ==
  \A c \in Callers :
    call[c].lookups = 1
    => IF Usable(call[c].param.addr)
       THEN /\ call[c].fetches = <<>>
            /\ call[c].servers = Descriptors(call[c].param.addr)
       ELSE /\ call[c].pc = "fetch" \/ call[c].cancelled \/ call[c].fetches # <<>>
            /\ Has(call[c].events, 500) => call[c].fetches # <<>>

(* C9's case: the provider record is usable and the IMAP trial started. *)
C9_Witness ==
  \E c \in Callers :
    /\ call[c].lookups = 1
    /\ Usable(call[c].param.addr)
    /\ get_provider_info(call[c].param.addr).val.status = "PREPARATION"
    /\ Has(call[c].events, 600)

(* The five sources in their order. *)
C10_Urls(domain, addr) ==
  << <<"https://autoconfig.">> \o domain
       \o <<"/mail/config-v1.1.xml?emailaddress=">> \o addr,
     <<"https://">> \o domain
       \o <<"/.well-known/autoconfig/mail/config-v1.1.xml?emailaddress=">> \o addr,
     <<"https://">> \o domain \o <<"/autodiscover/autodiscover.xml">>,
     <<"https://autodiscover.">> \o domain \o <<"/autodiscover/autodiscover.xml">>,
     <<"https://autoconfig.thunderbird.net/v1.1/">> \o domain >>

(* C10: the k-th fetch of a call is the k-th of the five sources, it is    *)
(* made only after the fetches before it failed, a failed fetch that is    *)
(* not the fifth is followed by the next source, and nothing is fetched    *)
(* after a fetch that succeeded.                                           *)
C10_SourceOrder ==
  \A c \in Callers :
    LET f == call[c].fetches
        urls == C10_Urls(call[c].param_domain, UrlEncode(call[c].param.addr))
    IN /\ Len(f) <= 5
       /\ \A k \in 1..Len(f) :
            /\ f[k].source.url = urls[k]
            /\ k < Len(f) => ~f[k].ok
       /\ (call[c].pc = "fetch")
            <=> /\ call[c].lookups = 1
                /\ ~call[c].cancelled
                /\ Len(f) < 5
                /\ \A k \in 1..Len(f) : ~f[k].ok
                /\ ~Usable(call[c].param.addr)
       /\ call[c].pc = "fetch" => call[c].idx = Len(f) + 1

(* C10's case: the third source answered after two failures and the run    *)
(* went on.                                                                *)
C10_Witness ==
  \E c \in Callers :
    /\ Len(call[c].fetches) = 3
    /\ call[c].fetches[3].ok
    /\ Has(call[c].events, 600)

(* The twelve candidates of a protocol for blank parameters: the address   *)
(* and its local part, each with the three hostnames, each with STARTTLS   *)
(* and SSL at the protocol's default ports.                                *)
C11_Blank(protocol, addr, domain) ==
  LET users == << addr, SubSeq(addr, 1, FindAt(addr) - 1) >>
      hosts == << domain,
                  (IF protocol = "IMAP" THEN <<"imap.">> ELSE <<"smtp.">>) \o domain,
                  <<"mail.">> \o domain >>
      socks == << "STARTTLS", "SSL" >>
      ports == IF protocol = "IMAP" THEN << 143, 993 >> ELSE << 587, 465 >>
  IN [ n \in 1..12 |->
         [ protocol |-> protocol,
           hostname |-> hosts[(((n - 1) \div 2) % 3) + 1],
           port |-> ports[((n - 1) % 2) + 1],
           socket |-> socks[((n - 1) % 2) + 1],
           username |-> users[((n - 1) \div 6) + 1] ] ]

(* C11: a call whose offline lookup gave nothing and whose five fetches    *)
(* all failed goes on to progress 500 and 600 and to the IMAP trial, with  *)
(* the expansion of the blank parameters as its candidates: twelve for     *)
(* IMAP and twelve for SMTP.                                               *)
C11_FallbackToBlank ==
  \A c \in Callers :
    LET r == call[c] IN
    (r.lookups = 1 /\ Len(r.fetches) = 5 /\ \A k \in 1..5 : ~r.fetches[k].ok)
    => /\ Has(r.events, 500)
       /\ Has(r.events, 600)
       /\ r.pc = "imap_connect" \/ r.attempts # <<>> \/ r.cancelled
       /\ r.attempts # <<>> => r.attempts[1].protocol = "IMAP"
       /\ ImapCandidates(r) = C11_Blank("IMAP", r.param.addr, r.param_domain)
       /\ SmtpCandidates(r) = C11_Blank("SMTP", r.param.addr, r.param_domain)
       /\ Len(r.servers) = 24

(* C11's case: five fetches failed and the twelve IMAP candidates were all *)
(* tried.                                                                  *)
C11_Witness ==
  \E c \in Callers :
    /\ Len(call[c].fetches) = 5
    /\ \A k \in 1..5 : ~call[c].fetches[k].ok
    /\ Len(call[c].attempts) = 12
    /\ call[c].success = "IMAP autoconfig did not succeed"

(* C12: a call that reached the trial phase has at least one IMAP          *)
(* candidate and at least one SMTP candidate.                              *)
C12_CandidatesNonEmpty ==
  \A c \in Callers :
    Has(call[c].events, 600)
    => /\ ImapCandidates(call[c]) # <<>>
       /\ SmtpCandidates(call[c]) # <<>>

(* C13: expand_ports gives, for port 0 and Automatic, STARTTLS at 143/587  *)
(* and then SSL at 993/465; for port 0 and SSL, one candidate at 993/465;  *)
(* for port 0 and STARTTLS or Plain, one candidate at 143/587 with the     *)
(* socket kept; for another port and Automatic, SSL and then STARTTLS at   *)
(* that port; for another port and a concrete socket, the input; and the   *)
(* protocol, hostname and username of every candidate are the input's.     *)
C13_ExpandPorts ==
  expansion.function = "expand_ports"
  => LET sp == expansion.list[1]
         res == expansion.res
         plain == IF sp.protocol = "IMAP" THEN 143 ELSE 587
         tls == IF sp.protocol = "IMAP" THEN 993 ELSE 465
     IN /\ (sp.port = 0 /\ sp.socket = "Automatic")
             => res = << [sp EXCEPT !.socket = "STARTTLS", !.port = plain],
                         [sp EXCEPT !.socket = "SSL", !.port = tls] >>
        /\ (sp.port = 0 /\ sp.socket = "SSL")
             => res = << [sp EXCEPT !.port = tls] >>
        /\ (sp.port = 0 /\ sp.socket \in {"STARTTLS", "Plain"})
             => res = << [sp EXCEPT !.port = plain] >>
        /\ (sp.port > 0 /\ sp.socket = "Automatic")
             => res = << [sp EXCEPT !.socket = "SSL"],
                         [sp EXCEPT !.socket = "STARTTLS"] >>
        /\ (sp.port > 0 /\ sp.socket # "Automatic")
             => res = << sp >>
        /\ \A i \in 1..Len(res) :
             /\ res[i].protocol = sp.protocol
             /\ res[i].hostname = sp.hostname
             /\ res[i].username = sp.username

(* C13's case: an SMTP descriptor with a port of the user's and no socket  *)
(* has been expanded.                                                      *)
C13_Witness ==
  /\ expansion.function = "expand_ports"
  /\ expansion.list[1].protocol = "SMTP"
  /\ expansion.list[1].port = 1143
  /\ expansion.list[1].socket = "Automatic"
  /\ Len(expansion.res) = 2

(* C14: expand_hostnames gives, for an empty hostname, the domain, then    *)
(* "imap." or "smtp." before the domain, then "mail." before the domain,   *)
(* in candidates that are the input but for the hostname; for a hostname   *)
(* that is not empty it gives the input.                                   *)
C14_ExpandHostnames ==
  expansion.function = "expand_hostnames"
  => LET sp == expansion.list[1]
         res == expansion.res
         domain == expansion.param_domain
     IN /\ sp.hostname = <<>>
             => /\ Len(res) = 3
                /\ res[1].hostname = domain
                /\ res[2].hostname =
                     (IF sp.protocol = "IMAP" THEN <<"imap.">> ELSE <<"smtp.">>)
                     \o domain
                /\ res[3].hostname = <<"mail.">> \o domain
                /\ \A i \in 1..3 : [res[i] EXCEPT !.hostname = <<>>] = sp
        /\ sp.hostname # <<>> => res = << sp >>

(* C14's case: an SMTP descriptor without hostname has been expanded. *)
C14_Witness ==
  /\ expansion.function = "expand_hostnames"
  /\ expansion.list[1].protocol = "SMTP"
  /\ expansion.list[1].hostname = <<>>
  /\ Len(expansion.res) = 3

(* C15: expand_usernames gives, for an empty username and an address with  *)
(* '@', the address and then the part before its first '@'; for an empty   *)
(* username and an address without '@', the address; for a username that   *)
(* is not empty, the input; and no other field is changed.                 *)
C15_ExpandUsernames ==
  expansion.function = "expand_usernames"
  => LET sp == expansion.list[1]
         res == expansion.res
         addr == expansion.addr
         ats == {i \in 1..Len(addr) : addr[i] = "@"}
     IN /\ (sp.username = <<>> /\ ats # {})
             => /\ Len(res) = 2
                /\ res[1].username = addr
                /\ \E at \in ats :
                     /\ \A i \in ats : at <= i
                     /\ res[2].username = SubSeq(addr, 1, at - 1)
        /\ (sp.username = <<>> /\ ats = {})
             => (Len(res) = 1 /\ res[1].username = addr)
        /\ sp.username # <<>> => res = << sp >>
        /\ \A i \in 1..Len(res) : [res[i] EXCEPT !.username = sp.username] = sp

(* C15's case: a descriptor without username has been expanded for an      *)
(* address with two '@'.                                                   *)
C15_Witness ==
  /\ expansion.function = "expand_usernames"
  /\ expansion.list[1].username = <<>>
  /\ expansion.addr = <<"a", "@", "b", "@", "n">>
  /\ Len(expansion.res) = 2

(* The candidates of a list, each with its place in the cross-product:     *)
(* the descriptor i it comes from, the username u of that descriptor, the  *)
(* hostname h of that username and the port/socket pair p of that          *)
(* hostname.                                                               *)
C16_Product(list, addr, domain) ==
  Flatten([ i \in 1..Len(list) |->
    LET U == expand_usernames(list[i], addr) IN
    Flatten([ u \in 1..Len(U) |->
      LET H == expand_hostnames(U[u], domain) IN
      Flatten([ h \in 1..Len(H) |->
        LET P == expand_ports(H[h]) IN
        [ p \in 1..Len(P) |-> [ place |-> <<i, u, h, p>>, sp |-> P[p] ] ] ]) ]) ])

(* The place a comes before the place b: descriptor first, then username,  *)
(* then hostname, then port/socket.                                        *)
C16_Before(a, b) ==
  \E k \in 1..4 : a[k] < b[k] /\ \A j \in 1..(k - 1) : a[j] = b[j]

(* C16: the expanded list is the cross-product in the order of its places: *)
(* the port/socket pairs of a hostname are consecutive, the hostnames of a *)
(* username come before the next username, the usernames of a descriptor   *)
(* before the next descriptor; the list is a function of the input alone.  *)
C16_TrialOrder ==
  expansion.function = "servers"
  => LET product == C16_Product(expansion.list, expansion.addr,
                                expansion.param_domain)
         res == expansion.res
     IN /\ Len(res) = Len(product)
        /\ \A n \in 1..Len(res) : res[n] = product[n].sp
        /\ \A n \in 1..(Len(product) - 1) :
             C16_Before(product[n].place, product[n + 1].place)
        /\ \A n \in 1..Len(res) :
             LET at == product[n].place
                 U == expand_usernames(expansion.list[at[1]], expansion.addr)
                 H == expand_hostnames(U[at[2]], expansion.param_domain)
             IN /\ res[n].username = U[at[2]].username
                /\ res[n].hostname = H[at[3]].hostname
                /\ res[n].protocol = expansion.list[at[1]].protocol

(* C16's case: two descriptors without username or hostname have been      *)
(* expanded for an address with '@'.                                       *)
C16_Witness ==
  /\ expansion.function = "servers"
  /\ Len(expansion.list) = 2
  /\ expansion.list[1].protocol = "SMTP"
  /\ expansion.list[2].protocol = "IMAP"
  /\ FindAt(expansion.addr) # 0
  /\ Len(expansion.res) = 24

(* The attempts of a call for one protocol, in the order they were made. *)
C17_Attempts(r, protocol) ==
  SelectSeq(r.attempts, LAMBDA a : a.protocol = protocol)

(* The attempt a was made with the fields of the candidate sp. *)
C17_Tried(a, sp) ==
  /\ a.user = sp.username
  /\ a.server = sp.hostname
  /\ a.port = sp.port
  /\ a.security = sp.socket

(* The login parameters lp hold the fields of the candidate sp. *)
C17_Holds(lp, sp) ==
  /\ lp.user = sp.username
  /\ lp.server = sp.hostname
  /\ lp.port = sp.port
  /\ lp.security = sp.socket

(* C17: the k-th IMAP attempt of a call is made with the k-th IMAP         *)
(* candidate, every attempt before the last one failed, and after an       *)
(* attempt that connected the IMAP login parameters are those of its       *)
(* candidate, up to and in what is saved; the same for SMTP.               *)
C17_FirstSuccessStops ==
  \A c \in Callers :
    LET r == call[c]
        ia == C17_Attempts(r, "IMAP")
        sa == C17_Attempts(r, "SMTP")
        ic == ImapCandidates(r)
        sc == SmtpCandidates(r)
    IN /\ Len(ia) <= Len(ic)
       /\ Len(sa) <= Len(sc)
       /\ \A k \in 1..Len(ia) :
            C17_Tried(ia[k], ic[k]) /\ (k < Len(ia) => ~ia[k].ok)
       /\ \A k \in 1..Len(sa) :
            C17_Tried(sa[k], sc[k]) /\ (k < Len(sa) => ~sa[k].ok)
       /\ (ia # <<>> /\ Last(ia).ok)
            => /\ r.pc # "imap_connect"
               /\ C17_Holds(r.param.imap, ic[Len(ia)])
       /\ (sa # <<>> /\ Last(sa).ok)
            => /\ r.pc # "smtp_connect"
               /\ C17_Holds(r.param.smtp, sc[Len(sa)])
       /\ r.pc = "imap_connect"
            => (r.idx = Len(ia) + 1 /\ C17_Holds(r.param.imap, ic[r.idx]))
       /\ r.pc = "smtp_connect"
            => (r.idx = Len(sa) + 1 /\ C17_Holds(r.param.smtp, sc[r.idx]))
       /\ Has(r.writes, "configured_")
            => /\ C17_Holds(store.configured_param.val.imap, ic[Len(ia)])
               /\ C17_Holds(store.configured_param.val.smtp, sc[Len(sa)])

(* C17's case: the eighth IMAP candidate of twelve connected after seven   *)
(* failures, the second SMTP candidate connected, and the parameters were  *)
(* saved.                                                                  *)
C17_Witness ==
  \E c \in Callers :
    /\ Len(ImapCandidates(call[c])) = 12
    /\ Len(C17_Attempts(call[c], "IMAP")) = 8
    /\ Len(C17_Attempts(call[c], "SMTP")) = 2
    /\ Has(call[c].writes, "configured_")

(* C18: a call whose IMAP candidates all failed fails with "IMAP           *)
(* autoconfig did not succeed" and never attempts SMTP; SMTP is attempted  *)
(* only after an IMAP candidate connected; a call whose SMTP candidates    *)
(* all failed fails with "SMTP autoconfig did not succeed" and configures  *)
(* no folders, selects no mailbox and saves nothing.  The error is what    *)
(* the caller gets unless the call is cancelled or a store write of        *)
(* inner_configure fails after it.                                         *)
C18_Exhaustion ==
  \A c \in Callers :
    LET r == call[c]
        ia == C17_Attempts(r, "IMAP")
        sa == C17_Attempts(r, "SMTP")
        imap_failed == /\ Has(r.events, 600)
                       /\ Len(ia) = Len(ImapCandidates(r))
                       /\ \A k \in 1..Len(ia) : ~ia[k].ok
        smtp_failed == /\ Has(r.events, 750)
                       /\ Len(sa) = Len(SmtpCandidates(r))
                       /\ \A k \in 1..Len(sa) : ~sa[k].ok
        surfaced(err) == (Returned(c) /\ ~r.cancelled /\ r.result # "store error")
                         => r.result = err
    IN /\ imap_failed
            => /\ r.success = "IMAP autoconfig did not succeed"
               /\ surfaced("IMAP autoconfig did not succeed")
               /\ sa = <<>>
               /\ ~Has(r.events, 750)
               /\ r.pc \notin {"imap_connect", "smtp_connect"}
       /\ (sa # <<>> \/ r.pc = "smtp_connect")
            => /\ ia # <<>>
               /\ Last(ia).ok
               /\ \A i, j \in 1..Len(r.attempts) :
                    (r.attempts[i].protocol = "SMTP" /\ i < j)
                    => r.attempts[j].protocol = "SMTP"
       /\ smtp_failed
            => /\ r.success = "SMTP autoconfig did not succeed"
               /\ surfaced("SMTP autoconfig did not succeed")
               /\ ~Has(r.events, 900)
               /\ ~Has(r.events, 910)
               /\ r.pc \notin {"smtp_disconnect", "get_config_bool",
                               "configure_folders", "select_with_uidvalidity",
                               "save_to_database", "set_configured",
                               "ensure_secret_key_exists", "set_notify"}
               /\ ~Has(r.writes, "configured_")
               /\ ~Has(r.writes, "configured")
               /\ store.configured_param = None
               /\ ~store.configured

(* C18's case: an IMAP candidate connected, the twelve SMTP candidates all *)
(* failed, and the call has returned that error.                           *)
C18_Witness ==
  \E c \in Callers :
    /\ Len(C17_Attempts(call[c], "SMTP")) = 12
    /\ Returned(c)
    /\ call[c].result = "SMTP autoconfig did not succeed"

(* No fetch and no connection attempt of the call has succeeded, and the   *)
(* call has not been cancelled.                                            *)
C19_AllFail(r) ==
  /\ ~r.cancelled
  /\ \A k \in 1..Len(r.fetches) : ~r.fetches[k].ok
  /\ \A k \in 1..Len(r.attempts) : ~r.attempts[k].ok

(* C19: a call in which every fetch and every connection attempt fails and *)
(* which is not cancelled makes at most five fetches and one attempt per   *)
(* IMAP candidate and no SMTP attempt, and eventually returns an error.    *)
C19_Terminates ==
  /\ [](C19_AllFail(call[1])
        => /\ Len(call[1].fetches) <= 5
           /\ Len(call[1].attempts) <= Len(ImapCandidates(call[1]))
           /\ \A k \in 1..Len(call[1].attempts) :
                call[1].attempts[k].protocol = "IMAP")
  /\ ([]C19_AllFail(call[1]))
       => <>(call[1].pc = "done" /\ call[1].result \notin {"Ok", "none"})

(* C19's case: five fetches and twelve IMAP attempts failed and the call   *)
(* has returned the error.                                                 *)
C19_Witness ==
  /\ C19_AllFail(call[1])
  /\ Len(call[1].fetches) = 5
  /\ Len(call[1].attempts) = 12
  /\ call[1].pc = "done"
  /\ call[1].result = "IMAP autoconfig did not succeed"

(* C20: a call that failed in validation (empty address, empty password,   *)
(* address that does not parse) has not called the OAuth2 resolver, has    *)
(* fetched no source and has attempted no connection.                      *)
C20_ValidationBeforeNetwork ==
  \A c \in Callers :
    call[c].success \in {"Please enter an email address.",
                         "Please enter a password.", "Bad email-address"}
    => /\ call[c].oauth2_lookups = 0
       /\ call[c].fetches = <<>>
       /\ call[c].attempts = <<>>

(* C21: a call that returned without progress 1000 (an error, or a         *)
(* cancellation) has written neither the "configured_" keys nor the        *)
(* "configured" flag.                                                      *)
C21_PersistedOnlyOnSuccess ==
  \A c \in Callers :
    (Returned(c) /\ ~Has(call[c].events, 1000))
    => /\ ~Has(call[c].writes, "configured_")
       /\ ~Has(call[c].writes, "configured")

(* The progress values of a call in the range of the discovery             *)
(* checkpoints.                                                            *)
C23_Checkpoints(r) == SelectSeq(r.events, LAMBDA v : v >= 300 /\ v < 500)

(* C23: a call has one discovery checkpoint per source that has answered   *)
(* or failed, the k-th being 300 + 10 * (k - 1): at most five of them,     *)
(* none above 340, all before progress 500.                                *)
C23_OneCheckpointPerSource ==
  \A c \in Callers :
    LET r == call[c]
        cps == C23_Checkpoints(r)
    IN /\ Len(cps) = Len(r.fetches)
       /\ Len(cps) <= 5
       /\ \A k \in 1..Len(cps) : cps[k] = 300 + 10 * (k - 1) /\ cps[k] <= 340
       /\ \A i, j \in 1..Len(r.events) :
            (r.events[i] = 500 /\ r.events[j] >= 300 /\ r.events[j] < 500) => j < i

(* C23's case: the fifth source answered and the run went on to 500. *)
C23_Witness ==
  \E c \in Callers :
    /\ Len(call[c].fetches) = 5
    /\ call[c].fetches[5].ok
    /\ Has(call[c].events, 340)
    /\ Has(call[c].events, 500)

(* C24: a call that emitted progress 1 has a non-empty address and a       *)
(* non-empty password.                                                     *)
C24_ProgressOneAfterValidation ==
  \A c \in Callers :
    Has(call[c].events, 1)
    => /\ call[c].param.addr # <<>>
       /\ call[c].param.imap.password # <<>>

(* C27: the SMTP session of a call is open only between the attempt that   *)
(* connected and its disconnect: it is closed when progress 900 is emitted *)
(* and at every step after it.                                             *)
C27_SmtpDisconnected ==
  \A c \in Callers :
    /\ call[c].smtp_connected => call[c].pc = "smtp_disconnect"
    /\ Has(call[c].events, 900) => ~call[c].smtp_connected
    /\ call[c].pc \in {"get_config_bool", "configure_folders",
                       "select_with_uidvalidity", "save_to_database",
                       "set_configured", "ensure_secret_key_exists",
                       "clear_notify", "config_exists", "set_default",
                       "add_device_msg", "set_notify", "free_ongoing", "done"}
         => ~call[c].smtp_connected

(* C27's case: an SMTP candidate connected and the call went on to 900. *)
C27_Witness ==
  \E c \in Callers :
    /\ \E i \in 1..Len(call[c].attempts) :
         call[c].attempts[i].protocol = "SMTP" /\ call[c].attempts[i].ok
    /\ Has(call[c].events, 900)
    /\ call[c].pc = "configure_folders"

(* The network operations of a call that have started and have not         *)
(* resolved.                                                               *)
C22_Outstanding(r) == r.started - (Len(r.fetches) + Len(r.attempts))

(* C22: a call has at most one fetch or connection attempt outstanding:    *)
(* every operation started before the latest one has resolved, and one is  *)
(* outstanding exactly while the call waits for a fetch or a connection    *)
(* (or was cancelled while it did).                                        *)
C22_OneOutstanding ==
  \A c \in Callers :
    LET r == call[c] IN
    /\ C22_Outstanding(r) \in {0, 1}
    /\ r.pc \in {"fetch", "imap_connect", "smtp_connect"}
         => C22_Outstanding(r) = 1
    /\ (C22_Outstanding(r) = 1 /\ ~r.cancelled)
         => r.pc \in {"fetch", "imap_connect", "smtp_connect"}

(* C22's case: five fetches and twelve IMAP attempts have resolved and an  *)
(* SMTP attempt is outstanding.                                            *)
C22_Witness ==
  \E c \in Callers :
    /\ Len(call[c].fetches) = 5
    /\ Len(call[c].attempts) = 12
    /\ call[c].pc = "smtp_connect"
    /\ call[c].started = 18

(* The address x is local part, '@', domain, with one '@'. *)
C26_Parseable(x) ==
  \E at \in 2..(Len(x) - 1) :
    x[at] = "@" /\ \A i \in 1..Len(x) : x[i] = "@" => i = at

(* The part of x after its '@', and the part before it. *)
C26_Domain(x) == SubSeq(x, (CHOOSE at \in 1..Len(x) : x[at] = "@") + 1, Len(x))
C26_Local(x) == SubSeq(x, 1, (CHOOSE at \in 1..Len(x) : x[at] = "@") - 1)

(* C26: progress 10 and 20 are emitted only by OAuth2 calls.  When the     *)
(* resolver has answered with a parseable address, that address is the     *)
(* working address, it is in the store under "addr" from progress 20 on,   *)
(* and nothing is looked up, fetched or attempted before progress 20; the  *)
(* domain, the URLs fetched and, with no advanced parameters, the          *)
(* usernames tried are those of that address; the address stays in the     *)
(* store whatever the call returns.  When the resolver has answered        *)
(* nothing, or was not asked, the address is the one loaded and "addr" is  *)
(* not written.                                                            *)
C26_CanonicalAddress ==
  \A c \in Callers :
    LET r == call[c]
        x == r.oauth2_addr.val
    IN /\ (Has(r.events, 10) \/ Has(r.events, 20))
            => /\ r.oauth2
               /\ (store.param.server_flags \div 2) % 4 = 1
               /\ r.oauth2_lookups = 1
       /\ Has(r.events, 20) => Has(r.events, 10)
       /\ (r.oauth2_addr.some /\ C26_Parseable(x))
            => /\ r.param.addr = x
               /\ Has(r.events, 20) => Has(r.writes, "addr")
               /\ Has(r.writes, "addr") => store.param.addr = x
               /\ (r.lookups > 0 \/ r.started > 0 \/ Has(r.events, 200))
                    => (Has(r.events, 20) /\ store.param.addr = x)
               /\ Has(r.events, 200) => r.param_domain = C26_Domain(x)
               /\ \A k \in 1..Len(r.fetches) :
                    r.fetches[k].source.url =
                      C10_Urls(C26_Domain(x),
                               C26_Local(x) \o <<"%40">> \o C26_Domain(x))[k]
               /\ AllBlank(store.param)
                    => \A k \in 1..Len(r.attempts) :
                         r.attempts[k].user \in {x, C26_Local(x)}
       /\ ~r.oauth2_addr.some
            => /\ ~Has(r.writes, "addr")
               /\ Has(r.events, 1) => r.param.addr = store.param.addr

(* C26's case: the resolver answered with another address, its five        *)
(* sources were fetched, the IMAP trial failed and the call has returned.  *)
C26_Witness ==
  \E c \in Callers :
    /\ call[c].oauth2_addr = Some(<<"c", "@", "n">>)
    /\ Len(call[c].fetches) = 5
    /\ Returned(c)
    /\ call[c].result = "IMAP autoconfig did not succeed"
    /\ store.param.addr = <<"c", "@", "n">>

(* The bit of value b (a power of two) is set in f. *)
C25_Bit(f, b) == (f \div b) % 2 = 1

(* C25: once a call has passed the two empty checks, exactly one of the    *)
(* bits OAuth2 (2) and normal (4) is set in its server_flags: OAuth2 when  *)
(* the loaded flags had OAuth2 set and normal not set, normal otherwise;   *)
(* every other bit is as loaded; the call is an OAuth2 call in the first   *)
(* case only; and the flags saved on success are the normalized ones.      *)
C25_FlagsNormalized ==
  \A c \in Callers :
    LET r == call[c]
        f0 == store.param.server_flags
        f == r.param.server_flags
    IN (Has(r.events, 1) /\ r.param.addr # <<>> /\ r.param.imap.password # <<>>)
       => /\ C25_Bit(f, 2) # C25_Bit(f, 4)
          /\ C25_Bit(f, 2) <=> (C25_Bit(f0, 2) /\ ~C25_Bit(f0, 4))
          /\ r.oauth2 <=> C25_Bit(f, 2)
          /\ \A b \in {1, 8, 16, 32, 64, 128, 256, 512, 1024, 65536} :
               C25_Bit(f, b) <=> C25_Bit(f0, b)
          /\ f \div 131072 = f0 \div 131072
          /\ Has(r.writes, "configured_")
               => store.configured_param.val.server_flags = f

(* C25's case: both auth bits and other bits were set, and the call has    *)
(* saved its parameters.                                                   *)
C25_Witness ==
  \E c \in Callers :
    /\ store.param.server_flags = 6 + 65536 + 256 + 1
    /\ Has(call[c].writes, "configured_")
    /\ call[c].param.server_flags = 4 + 65536 + 256 + 1

(* The candidate sp leaves nothing to guess. *)
C28_FullySpecified(sp) ==
  /\ sp.port # 0
  /\ sp.socket \in {"SSL", "STARTTLS", "Plain"}
  /\ sp.username # <<>>
  /\ sp.hostname # <<>>

C29_FailsToStart(c) == call[c].pc = "idle" /\ call'[c].pc = "done"

(* C29: a call that fails its preconditions leaves the slot as it was: the *)
(* slot is held as long as the call that allocated it is running; while it *)
(* is, a call of another caller fails to start, and after that call has    *)
(* returned the first call is where it was, the slot is still held, and a  *)
(* further call would fail to start as well.                               *)
C29_FailedStartKeepsSlot ==
  /\ [](\A d \in Callers : Active(d) => ongoing)
  /\ [][\A c \in Callers :
          C29_FailsToStart(c)
          => /\ call'[c].result \in {"cannot configure, already running",
                                     "cannot configure, database not opened.",
                                     "ongoing process is already running"}
             /\ ongoing' = ongoing
             /\ \A d \in Callers \ {c} :
                  Active(d)
                  => /\ call'[d] = call[d]
                     /\ ongoing'
                     /\ Preconditions(scheduler_running', sql_open', ongoing')
                          = "ongoing process is already running"]_vars
  /\ [][\A c \in Callers :
          (call[c].pc = "idle" /\ call'[c].pc # "idle"
           /\ \E d \in Callers \ {c} : Active(d))
          => /\ C29_FailsToStart(c)
             /\ call'[c].result = "ongoing process is already running"]_vars

(* C29's case: a call was rejected during the SMTP trial of another call,  *)
(* which still holds the slot.                                             *)
C29_Witness ==
  \E c, d \in Callers :
    /\ call[c].pc = "smtp_connect"
    /\ ongoing
    /\ call[d].pc = "done"
    /\ call[d].result = "ongoing process is already running"

(* The call r has emitted a terminal progress value. *)
C30_Terminal(r) == Has(r.events, 1000) \/ Has(r.events, 0)

(* The defaults that the provider of the call's address names. *)
C30_Defaults(r) ==
  LET provider == get_provider_info(r.param.addr) IN
  IF provider.some THEN provider.val.config_defaults ELSE <<>>

(* C30: a configuration key that has a value keeps it; a provider default  *)
(* is written only by a call whose configuration attempt has finished,     *)
(* only to a key without a value, and only while no terminal progress     *)
(* value (1000 or 0) has been emitted; and when inner_configure has        *)
(* emitted the terminal value, every key its provider names has a value.   *)
C30_DefaultsOnlyForMissingKeys ==
  /\ [][\A k \in DefaultKeys :
          store.defaults[k] # "unset" => store'.defaults[k] = store.defaults[k]]_vars
  /\ [][\A k \in DefaultKeys :
          store'.defaults[k] # store.defaults[k]
          => \E c \in Callers :
               /\ call[c].pc = "set_default"
               /\ call[c].success # "pending"
               /\ ~C30_Terminal(call[c])
               /\ DefaultOf(call[c]).key = k
               /\ store'.defaults[k] = DefaultOf(call[c]).value
               /\ Last(call'[c].writes) = k]_vars
  /\ [](\A c \in Callers :
          (C30_Terminal(call[c]) /\ ~call[c].cancelled)
          => /\ call[c].success # "pending"
             /\ \A i \in 1..Len(C30_Defaults(call[c])) :
                  store.defaults[C30_Defaults(call[c])[i].key] # "unset")

(* C30's case: a successful call whose provider names a default for a key  *)
(* that the user had set has emitted 1000 and returned, and the key has    *)
(* the user's value.                                                       *)
C30_Witness ==
  \E c \in Callers :
    /\ call[c].pc = "done"
    /\ Has(call[c].events, 1000)
    /\ C30_Defaults(call[c]) # <<>>
    /\ store.defaults[C30_Defaults(call[c])[1].key] = "user"

====
